---- MODULE Spec2Model ----
(***************************************************************************)
(* Model of the Schengen demo payment worker                               *)
(* (schengen-form-filler/worker/src/index.ts): the request dispatcher, the  *)
(* POST /checkout/verify and POST /checkout/create handlers, the token     *)
(* issuer, and the PAYMENTS key-value store, the payment provider and the  *)
(* clock they run against.                                                 *)
(*                                                                         *)
(* A request handler is an async function: it runs atomically between two  *)
(* awaits, and any number of handlers for other requests may run between   *)
(* its awaits.  Each action below is one such atomic stretch of a handler. *)
(*                                                                         *)
(* The PAYMENTS store is modelled with read-after-write consistency: a get *)
(* sees the latest put.                                                    *)
(*                                                                         *)
(* Spec and SpecThree are the worker under verify requests, SpecWorker the *)
(* worker under requests of every route.  SpecToken is createToken called  *)
(* on its own, SpecIssuer createToken called on its own or by the verify   *)
(* handler.  SpecApp is the application in the browser: the token and      *)
(* session management of ChuckyContext and useChuckyAssistant.  SpecForm   *)
(* and SpecFormThree are the form: the reducer of FormContext, the form    *)
(* tools of useChuckyAssistant and their highlight timers.  SpecChat is    *)
(* the chat panel and sendMessage.  SpecCheckout is the page on return     *)
(* from checkout, App, ChatPanel and UsageBadge, against the worker's      *)
(* verify handler.                                                         *)
(***************************************************************************)
EXTENDS Integers, Sequences, FiniteSets, TLC

\* ------------------------------------------------------------------------
\* Bounds of the model
\* ------------------------------------------------------------------------
MaxReqs == 2             \* verify requests issued in one behaviour
MaxTicks == 2            \* times the clock advances in one behaviour
MaxFaults == 1           \* failures of the store or the provider in one behaviour
UnitsPerSecond == 2      \* resolution of the clock: readings of Date.now() per second
MaxTokenTicks == 3       \* times the clock advances around a call of createToken
MaxLoads == 2            \* page loads of the application in one behaviour
MaxSets == 1             \* calls of setToken in one behaviour
MaxSends == 1            \* calls of sendMessage in one behaviour
MaxCalls == 2            \* edits of the form and calls of its tools in one behaviour
MaxUpdates == 2          \* updates in one call of react_setMultipleFields

\* The request slots.  Spec issues MaxReqs requests; SpecThree issues one
\* more, for the races that take a third request to observe.
Reqs == 1..(MaxReqs + 1)
PaymentIdOrder == <<"pay_A", "pay_B">>
PaymentIds == {PaymentIdOrder[i] : i \in 1..Len(PaymentIdOrder)}

\* ------------------------------------------------------------------------
\* Constants of the program
\* ------------------------------------------------------------------------
SecondsPerDay == 86400
DaysOfExpiry == 7
AiBudget == 1000000      \* ai: 1_000_000
ComputeBudget == 3600    \* compute: 3600

ExpiresIn == SecondsPerDay * DaysOfExpiry        \* createToken's expiresIn
\* Mutant of ExpirationTtl: the record is kept for one day.
ExpirationTtlOneDay == SecondsPerDay
ExpirationTtl == SecondsPerDay * DaysOfExpiry    \* put's expirationTtl

\* Date.now() counts milliseconds; the model's clock counts units of
\* 1/UnitsPerSecond second, so that Date.now() / 1000 is now \div UnitsPerSecond.
\* The clock advances by one unit, or by one unit less than the store's
\* time-to-live.
TickSteps == {1, ExpirationTtl * UnitsPerSecond - 1}

VARIABLES
    env,        \* the worker's bindings (Env), fixed for a deployment
    kv,         \* env.PAYMENTS: key -> [value, expiration (clock units)]
    provider,   \* the payment provider's status of each payment, as last reported
    now,        \* Date.now(), in clock units
    ticks,      \* how many times the clock has advanced
    faults,     \* how many store or provider calls have failed
    slots,      \* the requests that are issued in this behaviour
    req,        \* the requests: position in the handler and locals
    issuer,     \* a call of createToken on its own: arguments, time and result
    app,        \* the browser: localStorage and the page of the application
    form,       \* the visa form: FormContext's state and the timers of its highlight
    chat,       \* the chat panel: the hook's state and its calls of sendMessage
    checkout    \* the page on return from checkout: URL, chat panel, UsageBadge

worker == <<env, kv, provider, now, ticks, faults, slots, req>>
vars == <<env, kv, provider, now, ticks, faults, slots, req, issuer, app, form,
          chat, checkout>>

\* ------------------------------------------------------------------------
\* Values
\* ------------------------------------------------------------------------
Undefined == "undefined"              \* a property that is absent
NoToken == <<>>                       \* null / no token
ProviderStatuses == {"processing", "succeeded", "failed"}

\* What request.json() can yield: a rejection (the body is not JSON), the
\* JSON value null, or an object whose paymentId is absent, empty or a string.
Bodies(ids) ==
    {[kind |-> "invalid", paymentId |-> Undefined],
     [kind |-> "null", paymentId |-> Undefined]}
    \cup {[kind |-> "object", paymentId |-> p] : p \in {Undefined, ""} \cup ids}

NoBody == [kind |-> "none", paymentId |-> Undefined]
NoProv == [outcome |-> "none", status |-> ""]

\* A response of the handler.  kind "json" is a Response.json(...); kind
\* "uncaught" is an exception that left the handler (the runtime answers
\* with its own error page, not with JSON).
NoResp == [kind |-> "none", status |-> 0, error |-> "", token |-> NoToken, pstatus |-> ""]
JsonError(status, error) ==
    [kind |-> "json", status |-> status, error |-> error, token |-> NoToken, pstatus |-> ""]
\* Mutant of JsonNotCompleted: the response leaves the provider's status out.
JsonNotCompletedNoStatus(pstatus) ==
    [kind |-> "json", status |-> 400, error |-> "Payment not completed",
     token |-> NoToken, pstatus |-> ""]

JsonNotCompleted(pstatus) ==
    [kind |-> "json", status |-> 400, error |-> "Payment not completed",
     token |-> NoToken, pstatus |-> pstatus]
JsonToken(token) ==
    [kind |-> "json", status |-> 200, error |-> "", token |-> token, pstatus |-> ""]
Uncaught(error) ==
    [kind |-> "uncaught", status |-> 0, error |-> error, token |-> NoToken, pstatus |-> ""]
\* new Response(null, { status: 204 }): a response without a body.
EmptyResponse(status) ==
    [kind |-> "empty", status |-> status, error |-> "", token |-> NoToken, pstatus |-> ""]
\* Response.json of an object that has neither an error nor a token field:
\* { status: 'ok', service } and { paymentId, checkoutUrl }.
JsonOk ==
    [kind |-> "json", status |-> 200, error |-> "", token |-> NoToken, pstatus |-> ""]

\* ------------------------------------------------------------------------
\* The dispatcher's inputs
\* ------------------------------------------------------------------------
Methods == {"OPTIONS", "GET", "POST"}
Pathnames == {"/health", "/checkout/create", "/checkout/verify", "/"}

\* The handler that fetch() hands a request to, by the order of its tests.
Route(method, pathname) ==
    IF method = "OPTIONS" THEN "preflight"
    ELSE IF pathname = "/health" THEN "health"
    ELSE IF pathname = "/checkout/create" /\ method = "POST" THEN "create"
    ELSE IF pathname = "/checkout/verify" /\ method = "POST" THEN "verify"
    ELSE "notfound"

\* ------------------------------------------------------------------------
\* JWT utilities
\* ------------------------------------------------------------------------
\* A secret is the sequence of bytes that TextEncoder().encode(secret)
\* yields; a binding that is not set encodes to no bytes.
NoSecret == <<>>
DemoSecret == <<115, 51, 99>>

\* base64url of a value: an injective encoding, kept apart from the value.
base64UrlEncode(data) == [b64url |-> data]

\* JSON.stringify of an object of strings and integers: injective as well.
JsonStringify(value) == [json |-> value]

\* The key that HMAC computes with: the key bytes padded with zero bytes to
\* the 64-byte block of SHA-256, written here without the padding.  (A key
\* longer than the block is hashed first; the secrets of the model are
\* shorter.)
RECURSIVE HmacKey(_)
HmacKey(keyData) ==
    IF keyData # <<>> /\ keyData[Len(keyData)] = 0
    THEN HmacKey(SubSeq(keyData, 1, Len(keyData) - 1))
    ELSE keyData

\* HMAC-SHA-256 of data under secret: a value that names the key and the
\* data, so that it differs whenever the key or the signed data differ.
createHmacSignature(secret, data) ==
    base64UrlEncode([hmac |-> "SHA-256", key |-> HmacKey(secret), data |-> data])

\* crypto.subtle.importKey rejects a zero-length HMAC key with a DataError
\* on runtimes that follow the WebCrypto algorithm to the letter; a runtime
\* that accepts it signs with the empty key.  Both outcomes are kept.
ImportKeyOutcomes(secret) == IF secret = <<>> THEN {"throws", "signs"} ELSE {"signs"}

\* Mutant of NowSeconds: the division by 1000 is missing.
NowUnscaled(dateNow) == dateNow

\* const now = Math.floor(Date.now() / 1000)
NowSeconds(dateNow) == dateNow \div UnitsPerSecond

\* Mutant of Expiry: the validity is added in milliseconds.
ExpiryInMilliseconds(issuedAt, expiresIn) == issuedAt + expiresIn * 1000

\* exp: now + expiresIn
Expiry(issuedAt, expiresIn) == issuedAt + expiresIn

\* Mutant of TokenBudget: the two amounts are swapped.
TokenBudgetSwapped(budget, dateNow) ==
    [ai |-> budget.compute, compute |-> budget.ai,
     window |-> "lifetime", windowStart |-> dateNow]

\* budget: { ai, compute, window: 'lifetime', windowStart: new Date().toISOString() }
TokenBudget(budget, dateNow) ==
    [ai |-> budget.ai, compute |-> budget.compute,
     window |-> "lifetime", windowStart |-> dateNow]

\* Mutant of SignatureInput: only the payload is signed.
SignatureInputPayloadOnly(encodedHeader, encodedPayload) == <<encodedPayload>>

\* `${encodedHeader}.${encodedPayload}`
SignatureInput(encodedHeader, encodedPayload) == <<encodedHeader, encodedPayload>>

\* The token `${encodedHeader}.${encodedPayload}.${signature}` is the
\* sequence of its dot-joined segments (base64url has no dot).
createToken(userId, projectId, secret, budget, expiresIn, dateNow) ==
    LET nowSec == NowSeconds(dateNow)
        payload == [sub |-> userId,
                    iss |-> projectId,
                    iat |-> nowSec,
                    exp |-> Expiry(nowSec, expiresIn),
                    budget |-> TokenBudget(budget, dateNow)]
        header == [alg |-> "HS256", typ |-> "JWT"]
        encodedHeader == base64UrlEncode(JsonStringify(header))
        encodedPayload == base64UrlEncode(JsonStringify(payload))
        signatureInput == SignatureInput(encodedHeader, encodedPayload)
        signature == createHmacSignature(secret, signatureInput)
    IN  <<encodedHeader, encodedPayload, signature>>

\* ------------------------------------------------------------------------
\* The PAYMENTS store
\* ------------------------------------------------------------------------
KvKey(paymentId) == "payment:" \o paymentId

\* PAYMENTS.get: the stored value, or null when there is none or it expired.
KvGet(store, key, t) ==
    IF key \in DOMAIN store /\ t < store[key].expiration
    THEN store[key].value
    ELSE NoToken

\* PAYMENTS.put with expirationTtl (seconds): unconditional write.
KvPut(store, key, value, expirationTtl, t) ==
    [k \in DOMAIN store \cup {key} |->
        IF k = key
        THEN [value |-> value, expiration |-> t + expirationTtl * UnitsPerSecond]
        ELSE store[k]]

\* ------------------------------------------------------------------------
\* Initial state
\* ------------------------------------------------------------------------
\* createToken has not been called on its own.
NoCall == [pc |-> "none"]

\* No browser has the application open.
NoApp == [pc |-> "none"]

\* No form is mounted.
NoForm == [pc |-> "none"]

\* No chat panel is open.
NoChat == [pc |-> "none"]

\* No page has come back from a checkout.
NoCheckout == [pc |-> "none"]

NewReq ==
    [pc |-> "idle", route |-> "none", body |-> NoBody, paymentId |-> Undefined,
     existingToken |-> NoToken, prov |-> NoProv, token |-> NoToken,
     resp |-> NoResp, after |-> {}, gets |-> 0, fetches |-> 0, mints |-> 0,
     puts |-> 0]

InitWorker ==
    /\ env \in [DODO_API_KEY : {"", "dodo_key"},
                DEMO_HMAC_SECRET : {NoSecret, DemoSecret},
                DEMO_PROJECT_ID : {"proj_1"}]
    /\ kv = <<>>
    /\ provider = [p \in PaymentIds |-> "processing"]
    /\ now = 0
    /\ ticks = 0
    /\ faults = 0
    /\ req = [r \in Reqs |-> NewReq]
    /\ issuer = NoCall
    /\ app = NoApp
    /\ form = NoForm
    /\ chat = NoChat
    /\ checkout = NoCheckout

Init == InitWorker /\ slots = 1..MaxReqs

InitThree == InitWorker /\ slots = 1..(MaxReqs + 1)

\* ------------------------------------------------------------------------
\* The environment
\* ------------------------------------------------------------------------
\* Time passes.
Tick ==
    /\ ticks < MaxTicks
    /\ \E d \in TickSteps : now' = now + d
    /\ ticks' = ticks + 1
    /\ UNCHANGED <<checkout, chat, form, app, issuer, env, kv, provider, faults, slots, req>>

\* The provider's status of a payment is seen only by the requests that ask
\* for it.  A payment that is being processed may have settled, one way or
\* the other, by the time it is asked for; a settled payment stays settled.
Reportable(status) ==
    IF status = "processing" THEN ProviderStatuses ELSE {status}

\* ------------------------------------------------------------------------
\* handleVerifyPayment, one action per stretch between awaits
\* ------------------------------------------------------------------------
Done(r) == req[r].pc = "done"

\* Payment ids are opaque: a request names an id that an earlier request
\* named, or the first id that none has named yet.
Named == {req[q].paymentId : q \in Reqs} \ {Undefined}
Nameable ==
    {PaymentIdOrder[i] : i \in {j \in 1..Len(PaymentIdOrder) : j <= Cardinality(Named) + 1}}
\* Whether a call of outcome o is a failure of the store or the provider,
\* and the failures counted after it.
IsFault(o) == o \in {"throws", "not_ok", "json_throws"}
MayHappen(o) == IsFault(o) => faults < MaxFaults
Counted(o) == IF IsFault(o) THEN faults + 1 ELSE faults

\* A request arrives and fetch() hands it to the handler of this route.
\* Requests arrive in the order of their slots.
Dispatched(r, route) ==
    /\ r \in slots
    /\ req[r].pc = "idle"
    /\ IF r = 1 THEN TRUE ELSE req[r - 1].pc # "idle"
    /\ \E method \in Methods, pathname \in Pathnames : Route(method, pathname) = route

\* Entry up to the first store access: configuration check, body parsing,
\* paymentId check.
Begin(r) ==
    /\ Dispatched(r, "verify")
    /\ \E body \in Bodies(Nameable) :
         LET started == [req[r] EXCEPT !.route = "verify", !.body = body,
                                       !.after = {q \in Reqs : Done(q)}]
             answer(resp) == [started EXCEPT !.pc = "done", !.resp = resp]
         IN  req' = [req EXCEPT ![r] =
                IF env.DODO_API_KEY = ""
                THEN answer(JsonError(500, "Payment system not configured"))
                ELSE IF body.kind = "invalid"
                THEN answer(JsonError(400, "Invalid request body"))
                ELSE IF body.kind = "null"
                THEN answer(Uncaught("TypeError"))
                ELSE IF body.paymentId \in {Undefined, ""}
                THEN answer(JsonError(400, "paymentId is required"))
                ELSE [started EXCEPT !.pc = "get", !.paymentId = body.paymentId]]
    /\ UNCHANGED <<checkout, chat, form, app, issuer, env, kv, provider, now, ticks, faults, slots>>

\* Mutant of Replayed: the replay path writes the token back, which starts
\* the record's time-to-live anew.
ReplayedWithRefresh(store, key, value, t) == KvPut(store, key, value, ExpirationTtl, t)

\* The store after if (existingToken) { return Response.json({ token }) }:
\* the replay path returns the stored token and writes nothing.
Replayed(store, key, value, t) == store

\* const existingToken = await env.PAYMENTS.get(...), outside the try block.
GetExisting(r) ==
    /\ req[r].pc = "get"
    /\ \E outcome \in {"throws", "returns"} :
         LET existing == KvGet(kv, KvKey(req[r].paymentId), now)
             read == [req[r] EXCEPT !.gets = @ + 1]
         IN  /\ MayHappen(outcome)
             /\ faults' = Counted(outcome)
             /\ req' = [req EXCEPT ![r] =
                   IF outcome = "throws"
                   THEN [read EXCEPT !.pc = "done", !.resp = Uncaught("KV get failed")]
                   ELSE IF existing # NoToken
                   THEN [read EXCEPT !.pc = "done", !.existingToken = existing,
                                     !.resp = JsonToken(existing)]
                   ELSE [read EXCEPT !.pc = "fetch"]]
             /\ kv' = IF outcome = "returns" /\ existing # NoToken
                      THEN Replayed(kv, KvKey(req[r].paymentId), existing, now)
                      ELSE kv
    /\ UNCHANGED <<checkout, chat, form, app, issuer, env, provider, now, ticks, slots>>

\* fetch(`${baseUrl}/payments/${paymentId}`), response.ok, response.json(),
\* payment.status, inside the try block.
FetchOutcomes == {"throws", "not_ok", "json_throws", "ok"}

\* Mutant of Settled: every status but "failed" passes for settled.
SettledUnlessFailed(status) == status # "failed"

\* payment.status !== 'succeeded' is the one settlement test.
Settled(status) == status = "succeeded"

\* Mutant of ProviderFailure: the !response.ok test is missing, so every
\* failure ends in the catch block.
ProviderFailureAlwaysCaught(outcome) ==
    [kind |-> "json", status |-> 503, error |-> "Payment verification failed",
     token |-> NoToken, pstatus |-> ""]

\* The answer to a provider call that failed: !response.ok, or the catch
\* block for a rejected fetch or response.json().
ProviderFailure(outcome) ==
    IF outcome = "not_ok"
    THEN JsonError(500, "Failed to verify payment")
    ELSE JsonError(503, "Payment verification failed")

VerifyWithProvider(r) ==
    /\ req[r].pc = "fetch"
    /\ \E outcome \in FetchOutcomes, reported \in ProviderStatuses :
         LET status == IF outcome = "ok" THEN reported ELSE ""
             called == [req[r] EXCEPT !.fetches = @ + 1,
                                      !.prov = [outcome |-> outcome, status |-> status]]
             answer(resp) == [called EXCEPT !.pc = "done", !.resp = resp]
         IN  /\ MayHappen(outcome)
             /\ reported \in IF outcome = "ok"
                             THEN Reportable(provider[req[r].paymentId])
                             ELSE {provider[req[r].paymentId]}
             /\ faults' = Counted(outcome)
             /\ provider' = [provider EXCEPT ![req[r].paymentId] = reported]
             /\ req' = [req EXCEPT ![r] =
                   IF outcome # "ok"
                   THEN answer(ProviderFailure(outcome))
                   ELSE IF ~Settled(status)
                   THEN answer(JsonNotCompleted(status))
                   ELSE [called EXCEPT !.pc = "mint"]]
    /\ UNCHANGED <<checkout, chat, form, app, issuer, env, kv, now, ticks, slots>>

\* const token = await createToken(...), inside the try block.
MintToken(r) ==
    /\ req[r].pc = "mint"
    /\ \E outcome \in ImportKeyOutcomes(env.DEMO_HMAC_SECRET) :
         LET token == createToken(req[r].paymentId, env.DEMO_PROJECT_ID,
                                  env.DEMO_HMAC_SECRET,
                                  [ai |-> AiBudget, compute |-> ComputeBudget],
                                  ExpiresIn, now)
         IN  req' = [req EXCEPT ![r] =
                IF outcome = "throws"
                THEN [req[r] EXCEPT !.pc = "done",
                         !.resp = JsonError(503, "Payment verification failed")]
                ELSE [req[r] EXCEPT !.pc = "put", !.token = token, !.mints = @ + 1]]
    /\ UNCHANGED <<checkout, chat, form, app, issuer, env, kv, provider, now, ticks, faults, slots>>

\* await env.PAYMENTS.put(...) and the 200 response, inside the try block.
StoreToken(r) ==
    /\ req[r].pc = "put"
    /\ \E outcome \in {"throws", "returns"} :
         /\ MayHappen(outcome)
         /\ faults' = Counted(outcome)
         /\ IF outcome = "throws"
            THEN /\ req' = [req EXCEPT ![r] =
                       [req[r] EXCEPT !.pc = "done",
                           !.resp = JsonError(503, "Payment verification failed")]]
                 /\ kv' = kv
            ELSE /\ kv' = KvPut(kv, KvKey(req[r].paymentId), req[r].token,
                                ExpirationTtl, now)
                 /\ req' = [req EXCEPT ![r] =
                       [req[r] EXCEPT !.pc = "done", !.puts = @ + 1,
                           !.resp = JsonToken(req[r].token)]]
    /\ UNCHANGED <<checkout, chat, form, app, issuer, env, provider, now, ticks, slots>>

handleVerifyPayment(r) ==
    \/ Begin(r)
    \/ GetExisting(r)
    \/ VerifyWithProvider(r)
    \/ MintToken(r)
    \/ StoreToken(r)

\* ------------------------------------------------------------------------
\* The routes that answer at once
\* ------------------------------------------------------------------------
Answer(r, route, resp) ==
    /\ Dispatched(r, route)
    /\ req' = [req EXCEPT ![r] =
          [req[r] EXCEPT !.route = route, !.pc = "done", !.resp = resp]]
    /\ UNCHANGED <<checkout, chat, form, app, issuer, env, kv, provider, now, ticks, faults, slots>>

\* if (request.method === 'OPTIONS')
Preflight(r) == Answer(r, "preflight", EmptyResponse(204))

\* if (url.pathname === '/health')
Health(r) == Answer(r, "health", JsonOk)

\* return Response.json({ error: 'Not found' }, { status: 404 })
NotFound(r) == Answer(r, "notfound", JsonError(404, "Not found"))

\* ------------------------------------------------------------------------
\* handleCreateCheckout, one action per stretch between awaits
\* ------------------------------------------------------------------------
\* What request.json() can yield to handleCreateCheckout: a rejection (the
\* body stays {}), the JSON value null, or an object.
CreateBodies == {"invalid", "null", "object"}

\* Entry up to the provider call: configuration check, body parsing, and the
\* reads of body.productId and body.returnUrl, which are outside the try
\* block.
CreateBegin(r) ==
    /\ Dispatched(r, "create")
    /\ \E body \in CreateBodies :
         LET started == [req[r] EXCEPT !.route = "create"]
             answer(resp) == [started EXCEPT !.pc = "done", !.resp = resp]
         IN  req' = [req EXCEPT ![r] =
                IF env.DODO_API_KEY = ""
                THEN answer(JsonError(500, "Payment system not configured"))
                ELSE IF body = "null"
                THEN answer(Uncaught("TypeError"))
                ELSE [started EXCEPT !.pc = "create"]]
    /\ UNCHANGED <<checkout, chat, form, app, issuer, env, kv, provider, now, ticks, faults, slots>>

\* fetch(`${baseUrl}/payments`, ...), response.ok, response.text() or
\* response.json(), inside the try block.
CreateWithProvider(r) ==
    /\ req[r].pc = "create"
    /\ \E outcome \in FetchOutcomes :
         /\ MayHappen(outcome)
         /\ faults' = Counted(outcome)
         /\ req' = [req EXCEPT ![r] =
               [req[r] EXCEPT !.pc = "done", !.fetches = @ + 1,
                   !.resp = IF outcome = "ok" THEN JsonOk
                            ELSE IF outcome = "not_ok"
                            THEN JsonError(500, "Failed to create payment link")
                            ELSE JsonError(503, "Payment service unavailable")]]
    /\ UNCHANGED <<checkout, chat, form, app, issuer, env, kv, provider, now, ticks, slots>>

handleCreateCheckout(r) ==
    \/ CreateBegin(r)
    \/ CreateWithProvider(r)

\* ------------------------------------------------------------------------
\* The worker
\* ------------------------------------------------------------------------
fetch(r) ==
    \/ Preflight(r)
    \/ Health(r)
    \/ handleCreateCheckout(r)
    \/ handleVerifyPayment(r)
    \/ NotFound(r)

\* The worker under verify requests only.
Next ==
    \/ Tick
    \/ \E r \in Reqs : handleVerifyPayment(r)

\* The worker under requests of every method and path.
NextWorker ==
    \/ Tick
    \/ \E r \in Reqs : fetch(r)

Spec == Init /\ [][Next]_vars

SpecThree == InitThree /\ [][Next]_vars

SpecWorker == Init /\ [][NextWorker]_vars

\* ------------------------------------------------------------------------
\* createToken on its own
\* ------------------------------------------------------------------------
\* The arguments of a call.  Two of the secrets differ by a trailing zero
\* byte only.
TokenUserIds == {"pay_123", "user_1"}
TokenProjectIds == {"proj_1", "proj_2"}
TokenSecrets == {NoSecret, <<115>>, <<115, 0>>, <<116>>}
TokenBudgets == [ai : {0, AiBudget}, compute : {0, ComputeBudget}]
TokenExpiresIns == {1, 2, ExpiresIn}
TokenArgs ==
    [userId : TokenUserIds, projectId : TokenProjectIds, secret : TokenSecrets,
     budget : TokenBudgets, expiresIn : TokenExpiresIns]

\* The worker is idle and serves no request; a call of createToken with
\* some arguments is about to be made.
InitToken ==
    /\ env = [DODO_API_KEY |-> "dodo_key", DEMO_HMAC_SECRET |-> DemoSecret,
              DEMO_PROJECT_ID |-> "proj_1"]
    /\ kv = <<>>
    /\ provider = [p \in PaymentIds |-> "processing"]
    /\ now = 0
    /\ ticks = 0
    /\ faults = 0
    /\ slots = {}
    /\ req = [r \in Reqs |-> NewReq]
    /\ issuer \in {[pc |-> "ready", args |-> a, at |-> 0, token |-> NoToken] :
                      a \in TokenArgs}
    /\ app = NoApp
    /\ form = NoForm
    /\ chat = NoChat
    /\ checkout = NoCheckout

\* Time passes before and after the call: by one unit of the clock, by one
\* second, or by one unit less than the validity of a demo credential.
TokenTickSteps == {1, UnitsPerSecond, ExpiresIn * UnitsPerSecond - 1}

TokenTick ==
    /\ issuer.pc # "none"
    /\ ticks < MaxTokenTicks
    /\ \E d \in TokenTickSteps : now' = now + d
    /\ ticks' = ticks + 1
    /\ UNCHANGED <<checkout, chat, form, app, issuer, env, kv, provider, faults, slots, req>>

\* await createToken(userId, projectId, secret, budget, expiresIn)
IssueToken ==
    /\ issuer.pc = "ready"
    /\ \E outcome \in ImportKeyOutcomes(issuer.args.secret) :
         issuer' = IF outcome = "throws"
                   THEN [issuer EXCEPT !.pc = "threw", !.at = now]
                   ELSE [issuer EXCEPT !.pc = "issued", !.at = now,
                            !.token = createToken(issuer.args.userId,
                                                  issuer.args.projectId,
                                                  issuer.args.secret,
                                                  issuer.args.budget,
                                                  issuer.args.expiresIn, now)]
    /\ UNCHANGED <<checkout, chat, form, app, env, kv, provider, now, ticks, faults, slots, req>>

NextToken ==
    \/ TokenTick
    \/ IssueToken

SpecToken == InitToken /\ [][NextToken]_vars

\* createToken called on its own or by the verify handler.
SpecIssuer == (Init \/ InitToken) /\ [][Next \/ NextToken]_vars

\* ------------------------------------------------------------------------
\* The application in the browser: ChuckyContext and useChuckyAssistant
\* ------------------------------------------------------------------------
Null == "null"                          \* null, or a URL parameter that is absent
Truthy(x) == x \notin {Null, ""}
FALLBACK_TOKEN == "fallback_token"
DEMO_MODE == FALSE
AppTokens == {"tok_X", "tok_Y"}
UrlTokens == {Null, ""} \cup AppTokens   \* ?token=
UrlSessions == {Null, "sess_1"}         \* ?session=
StorageOutcomes == {"ok", "throws"}     \* localStorage.setItem / getItem

\* Mutant of extractInitParams: localStorage is asked before the URL.
extractInitParamsStorageFirst(urlToken, urlSession, storage, setItem, getItem) ==
    LET storedToken == IF getItem = "ok" THEN storage ELSE Null
        token == IF Truthy(storedToken) THEN storedToken
                 ELSE IF Truthy(urlToken) THEN urlToken ELSE Null
    IN  [token |-> IF Truthy(token) THEN token ELSE FALLBACK_TOKEN,
         sessionId |-> IF Truthy(urlSession) THEN urlSession ELSE Null,
         storage |-> IF Truthy(urlToken) /\ setItem = "ok" THEN urlToken ELSE storage]

\* extractInitParams, given the URL parameters, the token that localStorage
\* holds and the outcomes of its calls of localStorage: INIT_PARAMS, and the
\* token that localStorage holds afterwards.  A call of localStorage that
\* throws is caught and logged.
extractInitParams(urlToken, urlSession, storage, setItem, getItem) ==
    LET storedToken == IF getItem = "ok" THEN storage ELSE Null
        token == IF Truthy(urlToken) THEN urlToken
                 ELSE IF Truthy(storedToken) THEN storedToken ELSE Null
    IN  [token |-> IF Truthy(token) THEN token ELSE FALLBACK_TOKEN,
         sessionId |-> IF Truthy(urlSession) THEN urlSession ELSE Null,
         storage |-> IF Truthy(urlToken) /\ setItem = "ok" THEN urlToken ELSE storage]

\* demoMode: DEMO_MODE || !token, as ChuckyProvider passes it to the hook.
DemoMode(token) == DEMO_MODE \/ ~Truthy(token)

\* The effect that initializes the session: if (demoMode || !token) it
\* connects at once, otherwise it starts initSession.
Connects(demoMode, token) == ~(demoMode \/ ~Truthy(token))

\* A browser with empty localStorage and no page loaded.
\* supplied, saved: the token last given by ?token= or setToken, and whether
\* localStorage took it.
InitApp ==
    /\ env = [DODO_API_KEY |-> "dodo_key", DEMO_HMAC_SECRET |-> DemoSecret,
              DEMO_PROJECT_ID |-> "proj_1"]
    /\ kv = <<>>
    /\ provider = [p \in PaymentIds |-> "processing"]
    /\ now = 0
    /\ ticks = 0
    /\ faults = 0
    /\ slots = {}
    /\ req = [r \in Reqs |-> NewReq]
    /\ issuer = NoCall
    /\ form = NoForm
    /\ chat = NoChat
    /\ checkout = NoCheckout
    /\ app = [pc |-> "browser", storage |-> Null, supplied |-> Null, saved |-> FALSE,
              loads |-> 0, sets |-> 0, sends |-> 0,
              page |-> [load |-> [urlToken |-> Null, stored |-> Null, read |-> Null,
                                  supplied |-> Null, saved |-> FALSE],
                        init |-> [token |-> Null, sessionId |-> Null],
                        token |-> Null, demoMode |-> FALSE, pending |-> {},
                        sessionRef |-> Null, isConnected |-> FALSE, error |-> FALSE,
                        inits |-> 0, replies |-> {}]]

\* The page is loaded: the module runs extractInitParams, ChuckyProvider
\* mounts with INIT_PARAMS.token as its token, and the hook's effect runs.
\* page.load keeps the circumstances of the load: the ?token= parameter,
\* the token localStorage held, the token read from it, and the token last
\* supplied before.
LoadPage ==
    /\ app.pc = "browser"
    /\ app.loads < MaxLoads
    /\ \E urlToken \in UrlTokens, urlSession \in UrlSessions,
          setItem \in StorageOutcomes, getItem \in StorageOutcomes :
         LET params == extractInitParams(urlToken, urlSession, app.storage,
                                        setItem, getItem)
             demoMode == DemoMode(params.token)
             connects == Connects(demoMode, params.token)
         IN  app' = [app EXCEPT
                 !.storage = params.storage,
                 !.supplied = IF Truthy(urlToken) THEN urlToken ELSE @,
                 !.saved = IF Truthy(urlToken) THEN setItem = "ok" ELSE @,
                 !.loads = @ + 1,
                 !.page = [load |-> [urlToken |-> urlToken, stored |-> app.storage,
                                     read |-> IF ~Truthy(urlToken) /\ getItem = "ok"
                                              THEN app.storage ELSE Null,
                                     supplied |-> app.supplied, saved |-> app.saved],
                           init |-> [token |-> params.token,
                                     sessionId |-> params.sessionId],
                           token |-> params.token,
                           demoMode |-> demoMode,
                           pending |-> IF connects THEN {params.token} ELSE {},
                           sessionRef |-> Null,
                           isConnected |-> ~connects,
                           error |-> FALSE,
                           inits |-> IF connects THEN 1 ELSE 0,
                           replies |-> {}]]
    /\ UNCHANGED <<checkout, chat, form, issuer, worker>>

\* An initSession in flight settles: client.createSession or resumeSession
\* resolves (sessionRef.current = session, setIsConnected(true)) or rejects
\* (setError, setIsConnected(false)).
SessionSettles ==
    /\ app.pc = "browser"
    /\ \E t \in app.page.pending, outcome \in {"resolves", "rejects"} :
         app' = [app EXCEPT
             !.page.pending = @ \ {t},
             !.page.sessionRef = IF outcome = "resolves" THEN t ELSE @,
             !.page.isConnected = (outcome = "resolves"),
             !.page.error = IF outcome = "rejects" THEN TRUE ELSE @]
    /\ UNCHANGED <<checkout, chat, form, issuer, worker>>

\* setToken(newToken), as UsageBadge calls it with the token of a verified
\* payment: localStorage.setItem in a try block, then setTokenState.  A new
\* token re-runs the hook's effect: its cleanup drops sessionRef, and the
\* effect starts initSession with the new token.
SetToken ==
    /\ app.pc = "browser"
    /\ app.loads > 0
    /\ app.sets < MaxSets
    /\ \E newToken \in AppTokens, setItem \in StorageOutcomes :
         LET demoMode == DemoMode(newToken)
             connects == Connects(demoMode, newToken)
         IN  app' = [app EXCEPT
                 !.storage = IF setItem = "ok" THEN newToken ELSE @,
                 !.supplied = newToken,
                 !.saved = (setItem = "ok"),
                 !.sets = @ + 1,
                 !.page = IF newToken = app.page.token THEN @
                          ELSE [@ EXCEPT
                                  !.token = newToken,
                                  !.demoMode = demoMode,
                                  !.sessionRef = Null,
                                  !.pending = IF connects THEN @ \cup {newToken} ELSE @,
                                  !.isConnected = IF connects THEN @ ELSE TRUE,
                                  !.inits = IF connects THEN @ + 1 ELSE @]]
    /\ UNCHANGED <<checkout, chat, form, issuer, worker>>

\* sendMessage(content): if (demoMode || !sessionRef.current) the reply is
\* simulated, otherwise the message goes to the session.
SendMessage ==
    /\ app.pc = "browser"
    /\ app.loads > 0
    /\ app.sends < MaxSends
    /\ app' = [app EXCEPT
           !.sends = @ + 1,
           !.page.replies = @ \cup
               {IF app.page.demoMode \/ app.page.sessionRef = Null
                THEN "simulated" ELSE "session"}]
    /\ UNCHANGED <<checkout, chat, form, issuer, worker>>

NextApp ==
    \/ LoadPage
    \/ SessionSettles
    \/ SetToken
    \/ SendMessage

SpecApp == InitApp /\ [][NextApp]_vars

\* ------------------------------------------------------------------------
\* The visa form: FormContext (formReducer) and the tools that act on it
\* ------------------------------------------------------------------------
\* SCHENGEN_FIELDS, cut to its first four entries.  No field of the schema
\* is a checkbox, so every initial value is the empty string.
SCHENGEN_FIELDS ==
    <<[id |-> "surname", required |-> TRUE],
      [id |-> "surname_at_birth", required |-> FALSE],
      [id |-> "first_names", required |-> TRUE],
      [id |-> "date_of_birth", required |-> TRUE]>>

SchemaIds == {SCHENGEN_FIELDS[i].id : i \in DOMAIN SCHENGEN_FIELDS}
RequiredIds == {SCHENGEN_FIELDS[i].id : i \in {j \in DOMAIN SCHENGEN_FIELDS :
                                                  SCHENGEN_FIELDS[j].required}}

\* The field ids a tool call may name: two of the schema, one that is not in
\* it, and the empty string.
ToolFieldIds == {"surname", "first_names", "nickname", ""}
\* What is typed into a field, and what a tool call gives as a value.
FieldValues == {"", " ", "DOE"}
ToolValues == {" ", "DOE"}

\* The delays of the timers, in seconds: setTimeout(..., 3000) of
\* react_setField and react_setMultipleFields, the default duration of
\* react_highlightField, and the two steps of the demo-mode name fill.
SetFieldHighlight == 3
DefaultDuration == 5
DemoHighlight == 2
Durations == {1, DefaultDuration}       \* the duration argument

\* { ...a, ...b }
Spread(a, b) == b @@ a

\* state.fields[fieldId], spread: undefined spreads to nothing.
EntryOf(fields, fieldId) ==
    IF fieldId \in DOMAIN fields THEN fields[fieldId] ELSE <<>>

\* initialFields
initialFields ==
    [id \in SchemaIds |->
        [value |-> "", touched |-> FALSE, error |-> Undefined, highlighted |-> FALSE]]

initialState == [fields |-> initialFields, highlightedField |-> Null]

\* fields[fieldId].highlighted, as FormField reads it (?? false).
IsHighlighted(fields, fieldId) ==
    /\ fieldId \in DOMAIN fields
    /\ "highlighted" \in DOMAIN fields[fieldId]
    /\ fields[fieldId].highlighted

\* case 'HIGHLIGHT_FIELD'
HighlightField(state, fieldId) ==
    LET previous == state.highlightedField
        cleared == IF Truthy(previous) /\ previous \in DOMAIN state.fields
                   THEN Spread(state.fields,
                               previous :> Spread(state.fields[previous],
                                                  [highlighted |-> FALSE]))
                   ELSE state.fields
    IN  [fields |-> IF fieldId \in DOMAIN cleared
                    THEN Spread(cleared,
                                fieldId :> Spread(cleared[fieldId],
                                                  [highlighted |-> TRUE]))
                    ELSE cleared,
         highlightedField |-> fieldId]

\* case 'CLEAR_HIGHLIGHT'
ClearHighlight(state) ==
    LET previous == state.highlightedField
    IN  IF ~Truthy(previous) THEN state
        ELSE [fields |-> Spread(state.fields,
                                previous :> Spread(EntryOf(state.fields, previous),
                                                   [highlighted |-> FALSE])),
              highlightedField |-> Null]

\* formReducer(state, action)
formReducer(state, action) ==
    CASE action.type = "SET_FIELD_VALUE" ->
           [state EXCEPT !.fields =
               Spread(@, action.fieldId :>
                   Spread(EntryOf(@, action.fieldId),
                          [value |-> action.value, touched |-> TRUE]))]
      [] action.type = "SET_FIELD_ERROR" ->
           [state EXCEPT !.fields =
               Spread(@, action.fieldId :>
                   Spread(EntryOf(@, action.fieldId), [error |-> action.error]))]
      [] action.type = "SET_FIELD_TOUCHED" ->
           [state EXCEPT !.fields =
               Spread(@, action.fieldId :>
                   Spread(EntryOf(@, action.fieldId), [touched |-> TRUE]))]
      [] action.type = "HIGHLIGHT_FIELD" -> HighlightField(state, action.fieldId)
      [] action.type = "CLEAR_HIGHLIGHT" -> ClearHighlight(state)
      [] action.type = "SET_MULTIPLE_FIELDS" ->
           [state EXCEPT !.fields =
               [k \in DOMAIN @ |->
                   IF k \in DOMAIN action.fields
                   THEN Spread(@[k], [value |-> action.fields[k], touched |-> TRUE])
                   ELSE @[k]]]
      [] OTHER -> state

\* The dispatches of one handler, applied in their order.
RECURSIVE Dispatch(_, _)
Dispatch(state, actions) ==
    IF actions = <<>> THEN state
    ELSE Dispatch(formReducer(state, Head(actions)), Tail(actions))

\* getFieldValue(fieldId): state.fields[fieldId]?.value ?? ''
getFieldValue(fields, fieldId) ==
    IF fieldId \in DOMAIN fields /\ "value" \in DOMAIN fields[fieldId]
    THEN fields[fieldId].value ELSE ""

\* value.trim() of the values of the model
Trim(value) == IF value = " " THEN "" ELSE value

\* Mutant of FilledRequired: the value is not trimmed.
FilledRequiredUntrimmed(fields) ==
    {id \in RequiredIds : getFieldValue(fields, id) # ""}

\* filledRequired of getCompletionPercentage.  Every value of the form is
\* a string: value && value.trim() !== ''
FilledRequired(fields) ==
    {id \in RequiredIds :
        LET value == getFieldValue(fields, id)
        IN  value # "" /\ Trim(value) # ""}

\* Math.round(numerator / denominator), for numerator >= 0
MathRound(numerator, denominator) ==
    (2 * numerator + denominator) \div (2 * denominator)

\* getCompletionPercentage()
getCompletionPercentage(fields) ==
    MathRound(Cardinality(FilledRequired(fields)) * 100, Cardinality(RequiredIds))

\* The form as FormProvider mounts it.  timers: the callbacks that
\* setTimeout holds, in the order of their scheduling, each with the seconds
\* left until it is due.  own: the seconds left of the duration that the
\* last highlight was requested for.  last: the last call of a tool, its
\* input and its result.  budget: the edits and calls of this behaviour.
NoCallYet == [tool |-> "none"]

Mounted(budget) ==
    [pc |-> "mounted", state |-> initialState, timers |-> <<>>,
     own |-> 0, calls |-> 0, budget |-> budget, last |-> NoCallYet]

InitMounted(budget) ==
    /\ env = [DODO_API_KEY |-> "dodo_key", DEMO_HMAC_SECRET |-> DemoSecret,
              DEMO_PROJECT_ID |-> "proj_1"]
    /\ kv = <<>>
    /\ provider = [p \in PaymentIds |-> "processing"]
    /\ now = 0
    /\ ticks = 0
    /\ faults = 0
    /\ slots = {}
    /\ req = [r \in Reqs |-> NewReq]
    /\ issuer = NoCall
    /\ app = NoApp
    /\ form = Mounted(budget)
    /\ chat = NoChat
    /\ checkout = NoCheckout

\* SpecForm edits the form and calls its tools MaxCalls times; SpecFormThree
\* once more, for the states that take a third call to reach.
InitForm == InitMounted(MaxCalls)
InitFormThree == InitMounted(MaxCalls + 1)

\* setTimeout(callback, delay)
Timer(callback, delay, lastName) ==
    [callback |-> callback, left |-> delay, lastName |-> lastName]

\* One handler runs: its dispatches, the timers it schedules, the duration
\* of the highlight it sets (0: it sets none), and what it returns.
Handle(tool, input, actions, scheduled, duration, result) ==
    /\ form.pc = "mounted"
    /\ form.calls < form.budget
    /\ form' = [form EXCEPT
           !.state = Dispatch(@, actions),
           !.timers = @ \o scheduled,
           !.own = IF duration > 0 THEN duration ELSE @,
           !.calls = @ + 1,
           !.last = [tool |-> tool, input |-> input, result |-> result]]
    /\ UNCHANGED <<checkout, chat, app, issuer, worker>>

\* FormField: handleChange (typing, or a dom_fillField that raises the
\* input event) and handleBlur, on a field of the schema.
FieldChange ==
    \E fieldId \in SchemaIds, value \in FieldValues :
        Handle("handleChange", [fieldId |-> fieldId, value |-> value],
               <<[type |-> "SET_FIELD_VALUE", fieldId |-> fieldId, value |-> value]>>,
               <<>>, 0, [success |-> TRUE])

FieldBlur ==
    \E fieldId \in SchemaIds :
        Handle("handleBlur", [fieldId |-> fieldId],
               <<[type |-> "SET_FIELD_TOUCHED", fieldId |-> fieldId]>>,
               <<>>, 0, [success |-> TRUE])

\* The tool react_setField
react_setField ==
    \E fieldId \in ToolFieldIds, value \in ToolValues :
        LET input == [fieldId |-> fieldId, value |-> value]
        IN  IF fieldId \notin SchemaIds
            THEN Handle("react_setField", input, <<>>, <<>>, 0, [success |-> FALSE])
            ELSE Handle("react_setField", input,
                        <<[type |-> "SET_FIELD_VALUE", fieldId |-> fieldId,
                           value |-> value],
                          [type |-> "HIGHLIGHT_FIELD", fieldId |-> fieldId]>>,
                        <<Timer("clearHighlight", SetFieldHighlight, FALSE)>>,
                        SetFieldHighlight, [success |-> TRUE])

\* The inputs of react_setMultipleFields: lists of updates, of a field of the
\* schema to either value and of another field and a field that is not in the
\* schema to one value.
Updates ==
    [fieldId : {"surname"}, value : ToolValues]
        \cup [fieldId : {"first_names", "nickname"}, value : {"DOE"}]
UpdateLists == UNION {[1..n -> Updates] : n \in 0..MaxUpdates}

\* results of react_setMultipleFields
UpdateResults(updates) ==
    [i \in DOMAIN updates |->
        [fieldId |-> updates[i].fieldId,
         success |-> updates[i].fieldId \in SchemaIds]]

\* validUpdates: a later update of a field replaces an earlier one.
ValidUpdates(updates) ==
    LET valid == {i \in DOMAIN updates : updates[i].fieldId \in SchemaIds}
        lastOf(fieldId) == CHOOSE i \in valid :
                              /\ updates[i].fieldId = fieldId
                              /\ \A j \in valid : updates[j].fieldId = fieldId => j <= i
    IN  [fieldId \in {updates[i].fieldId : i \in valid} |-> updates[lastOf(fieldId)].value]

\* Mutant of SuccessCount: totalUpdates is returned in its place.
SuccessCountOfAll(results) == Len(results)

\* successCount: results.filter(r => r.success).length
SuccessCount(results) == Cardinality({i \in DOMAIN results : results[i].success})

\* The tool react_setMultipleFields
react_setMultipleFields ==
    \E updates \in UpdateLists :
        LET results == UpdateResults(updates)
            successes == {i \in DOMAIN results : results[i].success}
            firstSuccess == CHOOSE i \in successes : \A j \in successes : i <= j
            result == [totalUpdates |-> Len(updates),
                       successCount |-> SuccessCount(results),
                       results |-> results]
            batch == [type |-> "SET_MULTIPLE_FIELDS", fields |-> ValidUpdates(updates)]
        IN  IF successes = {}
            THEN Handle("react_setMultipleFields", updates, <<batch>>, <<>>, 0, result)
            ELSE Handle("react_setMultipleFields", updates,
                        <<batch, [type |-> "HIGHLIGHT_FIELD",
                                  fieldId |-> results[firstSuccess].fieldId]>>,
                        <<Timer("clearHighlight", SetFieldHighlight, FALSE)>>,
                        SetFieldHighlight, result)

\* The tool react_highlightField
react_highlightField ==
    \E fieldId \in ToolFieldIds, duration \in Durations :
        Handle("react_highlightField", [fieldId |-> fieldId, duration |-> duration],
               <<[type |-> "HIGHLIGHT_FIELD", fieldId |-> fieldId]>>,
               <<Timer("clearHighlight", duration, FALSE)>>,
               duration, [success |-> TRUE])

\* The tool react_validateField, on a field that has no rule of its own:
\* 'Field is empty' if (!value || value === '').
react_validateField ==
    \E fieldId \in ToolFieldIds :
        LET value == getFieldValue(form.state.fields, fieldId)
            errorMsg == IF value = "" THEN "Field is empty" ELSE Undefined
        IN  Handle("react_validateField", [fieldId |-> fieldId],
                   <<[type |-> "SET_FIELD_ERROR", fieldId |-> fieldId,
                      error |-> errorMsg]>>,
                   <<>>, 0, [isValid |-> value # ""])

\* sendMessage in demo mode, answering "i'm <first> <last>": it fills the
\* name fields, highlights first_names, and two seconds later highlights
\* surname (if a last name was given) and schedules the clearing.
DemoNameFill ==
    \E lastName \in BOOLEAN :
        Handle("sendMessage", [lastName |-> lastName],
               <<[type |-> "SET_FIELD_VALUE", fieldId |-> "first_names",
                  value |-> "DOE"]>>
               \o (IF lastName
                   THEN <<[type |-> "SET_FIELD_VALUE", fieldId |-> "surname",
                           value |-> "DOE"]>>
                   ELSE <<>>)
               \o <<[type |-> "HIGHLIGHT_FIELD", fieldId |-> "first_names"]>>,
               <<Timer("demo", DemoHighlight, lastName)>>,
               IF lastName THEN DemoHighlight ELSE 2 * DemoHighlight,
               [success |-> TRUE])

\* The timer that is due first runs its callback.
TimerFires ==
    /\ form.pc = "mounted"
    /\ \E i \in DOMAIN form.timers :
         /\ form.timers[i].left = 0
         /\ \A j \in 1..(i - 1) : form.timers[j].left > 0
         /\ LET timer == form.timers[i]
                rest == SubSeq(form.timers, 1, i - 1)
                        \o SubSeq(form.timers, i + 1, Len(form.timers))
            IN  form' = [form EXCEPT
                    !.state = IF timer.callback = "clearHighlight"
                              THEN formReducer(@, [type |-> "CLEAR_HIGHLIGHT"])
                              ELSE IF timer.lastName
                                   THEN HighlightField(@, "surname")
                                   ELSE @,
                    !.timers = IF timer.callback = "clearHighlight" THEN rest
                               ELSE rest \o <<Timer("clearHighlight", DemoHighlight,
                                                    FALSE)>>,
                    !.own = IF timer.callback = "demo" /\ timer.lastName
                            THEN DemoHighlight ELSE @]
    /\ UNCHANGED <<checkout, chat, app, issuer, worker>>

\* A second passes while no timer is due.
Advance ==
    /\ form.pc = "mounted"
    /\ form.timers # <<>>
    /\ \A i \in DOMAIN form.timers : form.timers[i].left > 0
    /\ form' = [form EXCEPT
           !.timers = [i \in DOMAIN @ |-> [@[i] EXCEPT !.left = @ - 1]],
           !.own = IF @ > 0 THEN @ - 1 ELSE 0]
    /\ UNCHANGED <<checkout, chat, app, issuer, worker>>

NextForm ==
    \/ FieldChange
    \/ FieldBlur
    \/ react_setField
    \/ react_setMultipleFields
    \/ react_highlightField
    \/ react_validateField
    \/ DemoNameFill
    \/ TimerFires
    \/ Advance

SpecForm == InitForm /\ [][NextForm]_vars
SpecFormThree == InitFormThree /\ [][NextForm]_vars

\* ------------------------------------------------------------------------
\* The chat panel: ChatPanel and sendMessage of useChuckyAssistant
\* ------------------------------------------------------------------------
\* The calls of sendMessage in one behaviour: one more than MaxSends, so
\* that two calls can be in flight.
ChatCalls == 1..(MaxSends + 1)

NoSend == [pc |-> "idle", files |-> FALSE, streamed |-> FALSE, outcome |-> "none"]

\* The message list, by the call of sendMessage that appended a message and
\* the role of the message.
NoMessages == [c \in ChatCalls |-> [user |-> 0, assistant |-> 0, system |-> 0]]

\* setMessages((prev) => [...prev, message])
AppendMessage(messages, role, c) == [messages EXCEPT ![c][role] = @ + 1]

\* The hook as the chat panel sees it.  sessionRef: sessionRef.current, a
\* session or null.  call: the calls of sendMessage, each at its await.
\* escaped: the calls whose promise was rejected.
InitChat ==
    /\ env = [DODO_API_KEY |-> "dodo_key", DEMO_HMAC_SECRET |-> DemoSecret,
              DEMO_PROJECT_ID |-> "proj_1"]
    /\ kv = <<>>
    /\ provider = [p \in PaymentIds |-> "processing"]
    /\ now = 0
    /\ ticks = 0
    /\ faults = 0
    /\ slots = {}
    /\ req = [r \in Reqs |-> NewReq]
    /\ issuer = NoCall
    /\ app = NoApp
    /\ form = NoForm
    /\ checkout = NoCheckout
    /\ \E demoMode \in BOOLEAN, sessionRef \in {Null, "session"} :
         /\ demoMode => sessionRef = Null
         /\ chat = [pc |-> "open", demoMode |-> demoMode, sessionRef |-> sessionRef,
                    isLoading |-> FALSE, currentActivity |-> Null, error |-> FALSE,
                    messages |-> NoMessages, call |-> [c \in ChatCalls |-> NoSend],
                    escaped |-> {}]

InFlight(c) == chat.call[c].pc \notin {"idle", "done"}

\* Mutant of Finally: the activity indicator is left as it is.
FinallyKeepsActivity(state) == [state EXCEPT !.isLoading = FALSE]

\* finally { setIsLoading(false); setCurrentActivity(null) }
Finally(state) == [state EXCEPT !.isLoading = FALSE, !.currentActivity = Null]

\* catch (err): setError, one system message with the error text; then the
\* finally block.
Catch(state, c, outcome) ==
    Finally([state EXCEPT
        !.error = TRUE,
        !.messages = AppendMessage(@, "system", c),
        !.call[c].pc = "done",
        !.call[c].outcome = outcome])

\* sendMessage from the user message on: setMessages, setIsLoading(true),
\* setError(null), and in the try block either the timer of the simulated
\* reply or sessionRef.current.send(...).
Started(state, c) ==
    [state EXCEPT
        !.messages = AppendMessage(@, "user", c),
        !.isLoading = TRUE,
        !.error = FALSE,
        !.call[c].pc = IF state.demoMode \/ state.sessionRef = Null
                       THEN "simulating" ELSE "sending"]

\* sendMessage(content, files) is called: with files it awaits
\* fileToBase64 first.
Called(c, files) ==
    /\ chat.pc = "open"
    /\ chat.call[c].pc = "idle"
    /\ IF c = 1 THEN TRUE ELSE chat.call[c - 1].pc # "idle"
    /\ chat' = IF files
               THEN [chat EXCEPT !.call[c].pc = "converting", !.call[c].files = TRUE]
               ELSE Started(chat, c)
    /\ UNCHANGED <<checkout, form, app, issuer, worker>>

\* ChatPanel: handleSubmit, with a text or with files selected:
\* if (... || isLoading) return
Submit(c) ==
    /\ chat.pc = "open"
    /\ ~chat.isLoading
    /\ \E files \in BOOLEAN : Called(c, files)

\* ChatPanel: a quick-action button, disabled={isLoading}
QuickAction(c) ==
    /\ chat.pc = "open"
    /\ ~chat.isLoading
    /\ Called(c, FALSE)

\* await fileToBase64(file) settles: reader.onload, or reader.onerror, which
\* rejects the promise of sendMessage.
Converted(c) ==
    /\ chat.pc = "open"
    /\ chat.call[c].pc = "converting"
    /\ \E outcome \in {"resolves", "rejects"} :
         chat' = IF outcome = "resolves" THEN Started(chat, c)
                 ELSE [chat EXCEPT !.call[c].pc = "done",
                                   !.call[c].outcome = "conversion_rejected",
                                   !.escaped = @ \cup {c}]
    /\ UNCHANGED <<checkout, form, app, issuer, worker>>

\* The timer of the simulated reply fires: the assistant's message, then
\* the finally block.
Simulated(c) ==
    /\ chat.pc = "open"
    /\ chat.call[c].pc = "simulating"
    /\ chat' = Finally([chat EXCEPT
                   !.messages = AppendMessage(@, "assistant", c),
                   !.call[c].pc = "done",
                   !.call[c].outcome = "ok"])
    /\ UNCHANGED <<checkout, form, app, issuer, worker>>

\* await sessionRef.current.send(...) settles; then sessionRef.current
\* .stream(), a TypeError if the effect's cleanup has run since.
Sent(c) ==
    /\ chat.pc = "open"
    /\ chat.call[c].pc = "sending"
    /\ \E outcome \in {"resolves", "rejects"} :
         chat' = IF outcome = "rejects" THEN Catch(chat, c, "send_rejected")
                 ELSE IF chat.sessionRef = Null THEN Catch(chat, c, "no_session")
                 ELSE [chat EXCEPT !.call[c].pc = "streaming"]
    /\ UNCHANGED <<checkout, form, app, issuer, worker>>

\* for await (const msg of streamGenerator): an assistant message (the
\* streaming message is added or updated, a tool use may set the activity),
\* the end of the stream, or an error.
Streams(c) ==
    /\ chat.pc = "open"
    /\ chat.call[c].pc = "streaming"
    /\ \/ /\ ~chat.call[c].streamed
          /\ \E activity \in {Null, "activity"} :
               chat' = [chat EXCEPT
                   !.messages = AppendMessage(@, "assistant", c),
                   !.currentActivity = IF activity # Null THEN activity ELSE @,
                   !.call[c].streamed = TRUE]
       \/ \E outcome \in {"ok", "stream_threw"} :
            chat' = [chat EXCEPT !.call[c].pc = "closing",
                                 !.call[c].outcome = outcome]
    /\ UNCHANGED <<checkout, form, app, issuer, worker>>

\* finally { await streamGenerator.return?.(undefined) } settles; then the
\* message is finalized, or the error reaches the catch block.
Closed(c) ==
    /\ chat.pc = "open"
    /\ chat.call[c].pc = "closing"
    /\ \E outcome \in {"resolves", "rejects"} :
         chat' = IF outcome = "rejects" THEN Catch(chat, c, "return_rejected")
                 ELSE IF chat.call[c].outcome # "ok"
                 THEN Catch(chat, c, chat.call[c].outcome)
                 ELSE Finally([chat EXCEPT !.call[c].pc = "done"])
    /\ UNCHANGED <<checkout, form, app, issuer, worker>>

\* The token changes: the effect's cleanup sets sessionRef.current = null.
EffectCleanup ==
    /\ chat.pc = "open"
    /\ chat.sessionRef # Null
    /\ chat' = [chat EXCEPT !.sessionRef = Null]
    /\ UNCHANGED <<checkout, form, app, issuer, worker>>

\* initSession resolves: sessionRef.current = session.
SessionOpens ==
    /\ chat.pc = "open"
    /\ ~chat.demoMode
    /\ chat.sessionRef = Null
    /\ chat' = [chat EXCEPT !.sessionRef = "session"]
    /\ UNCHANGED <<checkout, form, app, issuer, worker>>

\* What a call of sendMessage awaits settles.
Settles(c) ==
    \/ Converted(c)
    \/ Simulated(c)
    \/ Sent(c)
    \/ Streams(c)
    \/ Closed(c)

NextChat ==
    \/ \E c \in ChatCalls : Submit(c) \/ QuickAction(c) \/ Settles(c)
    \/ EffectCleanup
    \/ SessionOpens

\* Every promise that sendMessage awaits settles, and every stream ends.
SpecChat ==
    InitChat /\ [][NextChat]_vars /\ \A c \in ChatCalls : WF_vars(Settles(c))

\* ------------------------------------------------------------------------
\* The return from checkout (App, ChatPanel, UsageBadge against the worker)
\* ------------------------------------------------------------------------
\* The token of a page is the sequence of its dot-joined segments, as
\* createToken builds it; the fallback token is not one of the worker's.
FallbackCredential == <<FALLBACK_TOKEN>>

\* No call of verifyAndGetToken has been made by this page.
NoVerify == [pc |-> "none", paymentId |-> Null, r |-> 0, outcome |-> "none"]

\* The page the provider redirects to after checkout: App has mounted with
\* isChatOpen false, ChuckyProvider with the token of extractInitParams,
\* and the URL carries the payment_id of a payment that has settled.
\* stored is the token in localStorage.
InitCheckout ==
    /\ env = [DODO_API_KEY |-> "dodo_key", DEMO_HMAC_SECRET |-> DemoSecret,
              DEMO_PROJECT_ID |-> "proj_1"]
    /\ kv = <<>>
    /\ provider = [p \in PaymentIds |->
                     IF p = PaymentIdOrder[1] THEN "succeeded" ELSE "processing"]
    /\ now = 0
    /\ ticks = 0
    /\ faults = 0
    /\ slots = 1..MaxReqs
    /\ req = [r \in Reqs |-> NewReq]
    /\ issuer = NoCall
    /\ app = NoApp
    /\ form = NoForm
    /\ chat = NoChat
    /\ checkout = [pc |-> "page", paymentId |-> PaymentIdOrder[1],
                   isChatOpen |-> FALSE, isProcessing |-> FALSE,
                   token |-> FallbackCredential, stored |-> NoToken,
                   call |-> NoVerify, loads |-> 1]

\* The request of the next fetch of the page takes the first free slot.
FreeSlots == {r \in slots : req[r].pc = "idle" /\ checkout.call.r # r}
NextSlot == CHOOSE r \in FreeSlots : \A q \in FreeSlots : r <= q

\* verifyAndGetToken(paymentId) up to its first await: setIsProcessing(true)
\* and the fetch of /checkout/verify.
VerifyStarted(state, paymentId) ==
    [state EXCEPT !.isProcessing = TRUE,
                  !.call = [pc |-> "awaiting", paymentId |-> paymentId,
                            r |-> NextSlot, outcome |-> "none"]]

\* AssistantFAB's onClick: setIsChatOpen(true).  ChatPanel mounts and, the
\* token being set, UsageBadge with it; the badge's mount effect reads
\* payment_id, removes it from the URL with history.replaceState and then
\* calls verifyAndGetToken.
OpenChat ==
    /\ checkout.pc = "page"
    /\ ~checkout.isChatOpen
    /\ LET opened == [checkout EXCEPT !.isChatOpen = TRUE, !.isProcessing = FALSE]
           paymentId == checkout.paymentId
       IN  IF checkout.token # NoToken /\ Truthy(paymentId)
           THEN /\ FreeSlots # {}
                /\ checkout' = VerifyStarted([opened EXCEPT !.paymentId = Null],
                                             paymentId)
           ELSE checkout' = opened
    /\ UNCHANGED <<chat, form, app, issuer, worker>>

\* ChatPanel's onClose: setIsChatOpen(false) unmounts the panel and the
\* badge.  A call of verifyAndGetToken in flight goes on.
CloseChat ==
    /\ checkout.pc = "page"
    /\ checkout.isChatOpen
    /\ checkout' = [checkout EXCEPT !.isChatOpen = FALSE, !.isProcessing = FALSE]
    /\ UNCHANGED <<chat, form, app, issuer, worker>>

\* The page is loaded again at its current URL: the calls of the page that
\* was there are gone, extractInitParams reads the token from localStorage
\* and falls back to the demo token, and App mounts with isChatOpen false.
Reload ==
    /\ checkout.pc = "page"
    /\ checkout.loads < MaxLoads
    /\ \E getItem \in StorageOutcomes :
         checkout' = [checkout EXCEPT
             !.isChatOpen = FALSE,
             !.isProcessing = FALSE,
             !.token = IF getItem = "ok" /\ checkout.stored # NoToken
                       THEN checkout.stored ELSE FallbackCredential,
             !.call = NoVerify,
             !.loads = @ + 1]
    /\ UNCHANGED <<chat, form, app, issuer, worker>>

\* The request of the page reaches the worker: POST /checkout/verify with
\* the body JSON.stringify({ paymentId }).
VerifyArrives(r) ==
    /\ checkout.pc = "page"
    /\ checkout.call.pc = "awaiting"
    /\ checkout.call.r = r
    /\ Begin(r)
    /\ req'[r].body = [kind |-> "object", paymentId |-> checkout.call.paymentId]

\* finally { setIsProcessing(false); setProcessingTier(null) }
VerifyFinally(state, outcome) ==
    [state EXCEPT !.isProcessing = FALSE,
                  !.call.pc = "settled", !.call.outcome = outcome]

\* await fetch(...) rejects: the catch block logs the error.
FetchRejects ==
    /\ checkout.pc = "page"
    /\ checkout.call.pc = "awaiting"
    /\ MayHappen("throws")
    /\ faults' = Counted("throws")
    /\ checkout' = VerifyFinally(checkout, "rejected")
    /\ UNCHANGED <<chat, form, app, issuer, env, kv, provider, now, ticks, slots, req>>

\* response.ok
ResponseOk(resp) == resp.status >= 200 /\ resp.status <= 299

\* The response arrives.  response.json() rejects for the runtime's error
\* page; if (response.ok && data.token && onTokenReceived) the token goes
\* to setToken (localStorage.setItem in a try block, then setTokenState);
\* any other response is dropped.
Responds ==
    /\ checkout.pc = "page"
    /\ checkout.call.pc = "awaiting"
    /\ req[checkout.call.r].pc = "done"
    /\ LET resp == req[checkout.call.r].resp
       IN  \E setItem \in StorageOutcomes :
             checkout' =
                IF resp.kind # "json"
                THEN VerifyFinally(checkout, "json_rejected")
                ELSE IF ResponseOk(resp) /\ resp.token # NoToken
                THEN VerifyFinally(
                        [checkout EXCEPT !.token = resp.token,
                                         !.stored = IF setItem = "ok"
                                                    THEN resp.token ELSE @],
                        "installed")
                ELSE VerifyFinally(checkout, "dropped")
    /\ UNCHANGED <<chat, form, app, issuer, worker>>

\* The steps of the worker on the request of the page.
VerifySteps(r) ==
    \/ VerifyArrives(r)
    \/ GetExisting(r)
    \/ VerifyWithProvider(r)
    \/ MintToken(r)
    \/ StoreToken(r)

NextCheckout ==
    \/ OpenChat
    \/ CloseChat
    \/ Reload
    \/ FetchRejects
    \/ Responds
    \/ \E r \in Reqs : VerifySteps(r)
    \/ Tick

\* The user opens the assistant, the worker answers the requests it has
\* received, and an answer reaches the page unless the page's fetch
\* rejects.
SpecCheckout ==
    /\ InitCheckout
    /\ [][NextCheckout]_vars
    /\ WF_vars(OpenChat)
    /\ WF_vars(Responds)
    /\ \A r \in Reqs : WF_vars(VerifySteps(r))

\* ------------------------------------------------------------------------
\* Vocabulary of the properties
\* ------------------------------------------------------------------------
\* Both secrets of the worker are set.
Configured == env.DODO_API_KEY # "" /\ env.DEMO_HMAC_SECRET # NoSecret

Answered200(r) ==
    Done(r) /\ req[r].resp.kind = "json" /\ req[r].resp.status = 200

SamePayment(r1, r2) ==
    /\ req[r1].paymentId = req[r2].paymentId
    /\ req[r1].paymentId \in PaymentIds

\* r2 entered the handler after r1 had answered.
Later(r1, r2) == r1 \in req[r2].after

\* r1 and r2 overlap: neither entered after the other had answered.
Concurrent(r1, r2) ==
    /\ r1 # r2
    /\ req[r1].pc # "idle" /\ req[r2].pc # "idle"
    /\ ~Later(r1, r2) /\ ~Later(r2, r1)

\* Decoding a base64url segment, and the payload a token carries.
base64UrlDecode(segment) == segment.b64url
JsonParse(text) == text.json
Payload(token) == JsonParse(base64UrlDecode(token[2]))

\* The request read the store and found no live record.
FoundNothing(r) ==
    /\ req[r].gets = 1
    /\ req[r].pc # "get"
    /\ req[r].resp.kind # "uncaught"
    /\ req[r].existingToken = NoToken

\* A call of the store or of the provider failed within the request.
Faulted(r) ==
    \/ req[r].resp.kind = "uncaught" /\ req[r].gets = 1
    \/ IsFault(req[r].prov.outcome)
    \/ Done(r) /\ req[r].mints = 1 /\ req[r].puts = 0

\* The provider answered 2xx with this status.
Reported(r, status) == req[r].prov = [outcome |-> "ok", status |-> status]

\* The request ran the whole verify-mint-store flow and returned the
\* credential it minted itself.
FullFlow(r) ==
    /\ Answered200(r)
    /\ req[r].fetches = 1 /\ req[r].mints = 1 /\ req[r].puts = 1
    /\ req[r].token # NoToken
    /\ req[r].resp.token = req[r].token
    /\ Payload(req[r].token).sub = req[r].paymentId

\* A retry r2 of r that finds no record asks the provider again and, when
\* the provider reports succeeded and nothing fails, runs the full flow.
RetryRunsFullFlow(r) ==
    \A r2 \in Reqs :
        Later(r, r2) /\ SamePayment(r, r2) /\ Done(r2) /\ FoundNothing(r2) =>
            /\ req[r2].fetches = 1
            /\ (Reported(r2, "succeeded") /\ ~Faulted(r2)
                   /\ env.DEMO_HMAC_SECRET # NoSecret => FullFlow(r2))

\* ------------------------------------------------------------------------
\* Properties
\* ------------------------------------------------------------------------

\* C1: on a configured worker, of the requests for one paymentId that run
\* concurrently, at most one mints a credential (createToken) and at most one
\* writes it to the store.
C1_AtMostOneMint ==
    \A r1, r2 \in Reqs :
        Configured /\ Concurrent(r1, r2) /\ SamePayment(r1, r2) =>
            /\ ~(req[r1].mints > 0 /\ req[r2].mints > 0)
            /\ ~(req[r1].puts > 0 /\ req[r2].puts > 0)

\* C2: on a configured worker, concurrent requests for one paymentId that are
\* answered 200 return the same token string, and it is the one the store
\* holds for that id.
C2_SameTokenForAll ==
    \A r1, r2 \in Reqs :
        Configured /\ Concurrent(r1, r2) /\ SamePayment(r1, r2)
        /\ Answered200(r1) /\ Answered200(r2) =>
            /\ req[r1].resp.token = req[r2].resp.token
            /\ KvKey(req[r1].paymentId) \in DOMAIN kv
            /\ kv[KvKey(req[r1].paymentId)].value = req[r1].resp.token

\* C3: on a configured worker, once a request was answered 200, and for as
\* long as no record written for its token can have expired, a later request
\* for the same paymentId whose store read returns is answered 200 with the
\* identical token, without a provider call and without a mint.
C3_ReplayIdentical ==
    \A r1, r2 \in Reqs :
        Configured /\ Answered200(r1) /\ Later(r1, r2) /\ SamePayment(r1, r2) /\ Done(r2)
        /\ req[r2].resp.kind # "uncaught"
        /\ now < Payload(req[r1].resp.token).exp * UnitsPerSecond =>
            /\ Answered200(r2)
            /\ req[r2].resp.token = req[r1].resp.token
            /\ req[r2].fetches = 0
            /\ req[r2].mints = 0

\* C4: on a configured worker, the record of a paymentId is write-once: while
\* it has not expired, no step replaces the credential it holds with a
\* different one.
C4_WriteOnce ==
    [][\A k \in DOMAIN kv :
          Configured /\ now < kv[k].expiration => kv'[k].value = kv[k].value]_vars

\* C5: a request to which the provider reports a status other than succeeded
\* is answered 400 "Payment not completed" with that status, mints nothing
\* and stores nothing; a later request for the same paymentId that finds no
\* record asks the provider again and, if it then reports succeeded and no
\* call fails, is answered 200 with a token minted by that request.
C5_UnsettledNotStored ==
    \A r \in Reqs :
        Done(r) /\ req[r].prov.outcome = "ok" /\ req[r].prov.status # "succeeded" =>
            /\ req[r].resp.kind = "json"
            /\ req[r].resp.status = 400
            /\ req[r].resp.error = "Payment not completed"
            /\ req[r].resp.pstatus = req[r].prov.status
            /\ req[r].resp.token = NoToken
            /\ req[r].mints = 0 /\ req[r].puts = 0
            /\ RetryRunsFullFlow(r)

C5_Witness ==
    \E r1, r2 \in Reqs :
        /\ Later(r1, r2) /\ SamePayment(r1, r2)
        /\ Done(r1) /\ Reported(r1, "processing") /\ req[r1].resp.status = 400
        /\ Reported(r2, "succeeded") /\ FullFlow(r2)

\* C6: a request whose provider call fails is answered 500 "Failed to verify
\* payment" (non-2xx) or 503 "Payment verification failed" (thrown), without
\* a token, mints nothing and stores nothing; a later request for the same
\* paymentId that finds no record runs the full verify-mint-store flow.
C6_ProviderFailureRetryable ==
    \A r \in Reqs :
        Done(r) /\ IsFault(req[r].prov.outcome) =>
            /\ req[r].resp.kind = "json"
            /\ req[r].resp.token = NoToken
            /\ (req[r].prov.outcome = "not_ok" =>
                   /\ req[r].resp.status = 500
                   /\ req[r].resp.error = "Failed to verify payment")
            /\ (req[r].prov.outcome \in {"throws", "json_throws"} =>
                   /\ req[r].resp.status = 503
                   /\ req[r].resp.error = "Payment verification failed")
            /\ req[r].mints = 0 /\ req[r].puts = 0
            /\ RetryRunsFullFlow(r)

C6_Witness ==
    \E r1, r2 \in Reqs :
        /\ Later(r1, r2) /\ SamePayment(r1, r2)
        /\ Done(r1) /\ req[r1].prov.outcome = "not_ok" /\ req[r1].resp.status = 500
        /\ KvKey(req[r1].paymentId) \in DOMAIN kv
        /\ FullFlow(r2)

\* C7: on a configured worker, every finished request was answered with a
\* JSON response that carries a token (status 200) or an error field; no
\* exception leaves the handler.
C7_AlwaysJson ==
    \A r \in Reqs :
        Configured /\ Done(r) /\ req[r].route = "verify" =>
            /\ req[r].resp.kind = "json"
            /\ \/ req[r].resp.status = 200 /\ req[r].resp.token # NoToken
               \/ req[r].resp.error # ""

\* C8: on a configured worker, every request whose body carries no paymentId
\* is answered 400 "paymentId is required" before any store read or write,
\* provider call or mint.
NoPaymentId(body) ==
    \/ body.kind = "null"
    \/ body.kind = "object" /\ body.paymentId \in {Undefined, ""}

C8_MissingIdRejected ==
    \A r \in Reqs :
        Configured /\ Done(r) /\ req[r].route = "verify" /\ NoPaymentId(req[r].body) =>
            /\ req[r].resp.kind = "json"
            /\ req[r].resp.status = 400
            /\ req[r].resp.error = "paymentId is required"
            /\ req[r].gets = 0 /\ req[r].fetches = 0
            /\ req[r].mints = 0 /\ req[r].puts = 0

\* C9: on a worker that lacks DODO_API_KEY or DEMO_HMAC_SECRET, every request
\* for a paymentId without a stored record that the handler answers itself is
\* answered with a 5xx error, without a token, and stores nothing.
C9_MisconfiguredFails ==
    \A r \in Reqs :
        ~Configured /\ Done(r) /\ req[r].body.paymentId \in PaymentIds
        /\ req[r].resp.kind = "json" /\ req[r].existingToken = NoToken =>
            /\ req[r].resp.status \in {500, 503}
            /\ req[r].resp.token = NoToken
            /\ req[r].puts = 0

\* C10: a request mints or stores a credential only after the provider
\* answered it 2xx with status succeeded, and the credential's subject is the
\* request's paymentId; so every record payment:<X> holds a credential whose
\* subject is X, and the provider has reported X as succeeded.
C10_MintOnlyWhenSucceeded ==
    /\ \A r \in Reqs :
          req[r].mints > 0 \/ req[r].puts > 0 \/ req[r].token # NoToken =>
              /\ Reported(r, "succeeded")
              /\ Payload(req[r].token).sub = req[r].paymentId
    /\ \A k \in DOMAIN kv :
          \E p \in PaymentIds :
              /\ k = "payment:" \o p
              /\ Payload(kv[k].value).sub = p
              /\ provider[p] = "succeeded"
              /\ \E r \in Reqs : req[r].paymentId = p /\ Reported(r, "succeeded")

C10_Witness ==
    \A p \in PaymentIds :
        /\ KvKey(p) \in DOMAIN kv
        /\ Payload(kv[KvKey(p)].value).sub = p

\* C11: only the fresh-success path of POST /checkout/verify writes the
\* PAYMENTS store.  Every step that changes the store, a record's value or
\* its expiry, is the put of a verify request that found no record and is
\* answered 200 with the token it minted; every other step of a request
\* (preflight, /health, /checkout/create, 404, replay, 400, 500, 503, an
\* exception) leaves the store as it was.
FreshSuccessStep(r) ==
    /\ req[r].route = "verify"
    /\ req[r].pc = "put"
    /\ req[r].existingToken = NoToken
    /\ req'[r] = [req[r] EXCEPT !.pc = "done", !.puts = @ + 1,
                                !.resp = JsonToken(req[r].token)]

C11_OnlyFreshSuccessWrites ==
    [][/\ \A r \in Reqs : req'[r] # req[r] /\ ~FreshSuccessStep(r) => kv' = kv
       /\ kv' # kv => \E r \in Reqs : FreshSuccessStep(r)]_vars

\* A request replayed the record of an earlier fresh success at a later
\* time, requests of other routes were answered, and the record is the one
\* that was put, value and expiry.
C11_Witness ==
    \E r1, r2 \in Reqs :
        /\ FullFlow(r1) /\ Later(r1, r2) /\ SamePayment(r1, r2)
        /\ Answered200(r2) /\ req[r2].existingToken = req[r1].token
        /\ req[r2].puts = 0
        /\ kv[KvKey(req[r1].paymentId)].value = req[r1].token
        /\ kv[KvKey(req[r1].paymentId)].expiration
              < now + ExpirationTtl * UnitsPerSecond

\* C12: every record that /checkout/verify writes is given a time-to-live
\* equal to the validity window (exp - iat) of the credential it holds, and
\* both are 7 days, 604800 seconds: the record written at a step expires
\* that many seconds after the time of the write.
ValidityWindow(token) == Payload(token).exp - Payload(token).iat

C12_TtlEqualsWindow ==
    [][\A k \in DOMAIN kv' :
          (k \notin DOMAIN kv \/ kv'[k] # kv[k]) =>
              /\ ValidityWindow(kv'[k].value) = 7 * 24 * 60 * 60
              /\ kv'[k].expiration
                    = now + ValidityWindow(kv'[k].value) * UnitsPerSecond]_vars

\* A record was written after its credential was minted, at a later time.
C12_Witness ==
    \E r \in Reqs :
        /\ FullFlow(r)
        /\ kv[KvKey(req[r].paymentId)].value = req[r].token
        /\ kv[KvKey(req[r].paymentId)].expiration
              > (Payload(req[r].token).exp + 1) * UnitsPerSecond

\* ------------------------------------------------------------------------
\* Properties of createToken
\* ------------------------------------------------------------------------
Issued == issuer.pc = "issued"

\* The verifier's rule, at clock reading t: the signature recomputed over
\* the first two segments with the secret matches the third, and the time
\* in whole seconds is before exp.
SignatureMatches(token, secret) ==
    createHmacSignature(secret, <<token[1], token[2]>>) = token[3]

VerifierAccepts(token, secret, t) ==
    /\ Len(token) = 3
    /\ SignatureMatches(token, secret)
    /\ t \div UnitsPerSecond < Payload(token).exp

\* C13: every credential that createToken produces has iat equal to the time
\* of the call in whole seconds (the second that the clock reading of the
\* call lies in) and exp = iat + expiresIn; for expiresIn > 0, exp > iat.
C13_IatExp ==
    Issued =>
        LET p == Payload(issuer.token) IN
        /\ p.iat * UnitsPerSecond <= issuer.at
        /\ issuer.at < (p.iat + 1) * UnitsPerSecond
        /\ p.exp = p.iat + issuer.args.expiresIn
        /\ (issuer.args.expiresIn > 0 => p.exp > p.iat)

\* A call made within a second, later than time 0.
C13_Witness ==
    /\ Issued
    /\ issuer.at > UnitsPerSecond
    /\ issuer.at % UnitsPerSecond # 0
    /\ Payload(issuer.token).exp = Payload(issuer.token).iat + 1

\* C14: with times in whole seconds, a credential issued at second t with a
\* validity of ttl seconds is accepted by the verifier's rule at every
\* second of [t, t + ttl) and rejected at every second >= t + ttl, where
\* its signature still matches; so one with ttl = 1 is accepted at t and
\* rejected at t + 2.
C14_ExpiryEnforced ==
    Issued =>
        LET t == issuer.at \div UnitsPerSecond
            ttl == issuer.args.expiresIn
            second == now \div UnitsPerSecond
        IN  /\ t <= second
            /\ SignatureMatches(issuer.token, issuer.args.secret)
            /\ (second < t + ttl =>
                   VerifierAccepts(issuer.token, issuer.args.secret, now))
            /\ (second >= t + ttl =>
                   ~VerifierAccepts(issuer.token, issuer.args.secret, now))

\* A credential with ttl = 1, two seconds after it was issued: rejected,
\* with a matching signature.
C14_Witness ==
    /\ Issued
    /\ issuer.args.expiresIn = 1
    /\ now \div UnitsPerSecond = issuer.at \div UnitsPerSecond + 2
    /\ SignatureMatches(issuer.token, issuer.args.secret)
    /\ ~VerifierAccepts(issuer.token, issuer.args.secret, now)

\* C15: the token that createToken returns has exactly three segments, and
\* the decoded second segment carries sub, iss, budget.ai and budget.compute
\* equal to the arguments; a token minted by /checkout/verify carries
\* sub = paymentId, iss = DEMO_PROJECT_ID, ai = 1000000, compute = 3600.
C15_PayloadPreserved ==
    /\ Issued =>
          /\ Len(issuer.token) = 3
          /\ Payload(issuer.token).sub = issuer.args.userId
          /\ Payload(issuer.token).iss = issuer.args.projectId
          /\ Payload(issuer.token).budget.ai = issuer.args.budget.ai
          /\ Payload(issuer.token).budget.compute = issuer.args.budget.compute
    /\ \A r \in Reqs :
          req[r].token # NoToken =>
              /\ Len(req[r].token) = 3
              /\ Payload(req[r].token).sub = req[r].paymentId
              /\ Payload(req[r].token).iss = env.DEMO_PROJECT_ID
              /\ Payload(req[r].token).budget.ai = 1000000
              /\ Payload(req[r].token).budget.compute = 3600

\* createToken was called on its own with two different amounts.
C15_Witness ==
    /\ Issued
    /\ issuer.args.userId = "pay_123" /\ issuer.args.projectId = "proj_1"
    /\ issuer.args.budget = [ai |-> AiBudget, compute |-> 0]
    /\ Payload(issuer.token).budget.ai = AiBudget
    /\ Payload(issuer.token).budget.compute = 0

RECURSIVE EqualUpToTrailingZeros(_, _)
EqualUpToTrailingZeros(a, b) ==
    IF Len(a) > Len(b) THEN EqualUpToTrailingZeros(b, a)
    ELSE /\ SubSeq(b, 1, Len(a)) = a
         /\ \A i \in (Len(a) + 1)..Len(b) : b[i] = 0

Loaded == app.pc = "browser" /\ app.loads > 0

\* The page was loaded without a ?token= parameter while localStorage held
\* no token, and setToken has not changed the token since.
DefaultLoad ==
    /\ Loaded
    /\ app.page.load.urlToken = Null
    /\ app.page.load.stored = Null
    /\ app.page.token = app.page.init.token

\* C17: after a page load with no token parameter in the URL and no token in
\* localStorage the assistant runs in demo mode: no Chucky session is
\* created and every reply to sendMessage is a simulated response.
C17_DemoModeByDefault ==
    DefaultLoad =>
        /\ app.page.demoMode
        /\ app.page.inits = 0
        /\ app.page.pending = {}
        /\ app.page.sessionRef = Null
        /\ app.page.replies \subseteq {"simulated"}

C19_OneMintPerLifetime ==
    \A r1, r2 \in Reqs :
        Configured /\ FullFlow(r1) /\ Later(r1, r2) /\ SamePayment(r1, r2) =>
            req[r2].mints = 0

\* The record of the request's paymentId was written within a second of
\* the minting of the credential it holds.
WrittenPromptly(r) ==
    LET k == KvKey(req[r].paymentId) IN
    /\ k \in DOMAIN kv
    /\ kv[k].expiration <= (Payload(kv[k].value).exp + 1) * UnitsPerSecond

\* C20: on a configured worker, every token that a request returns with
\* status 200 from the store, out of a record written within a second of
\* the minting, is unexpired at the time of the response: the time in whole
\* seconds is before its exp.  (The same is claimed of a token returned by
\* the request that minted it, which is expired only if that request itself
\* lasted as long as the validity window; that case is set aside.)
C20_ReplayedTokenUnexpired ==
    [][\A r \in Reqs :
          Configured /\ req[r].pc = "get" /\ WrittenPromptly(r) /\ Answered200(r)' =>
              now \div UnitsPerSecond < Payload(req'[r].resp.token).exp]_vars

\* ------------------------------------------------------------------------
\* The visa form
\* ------------------------------------------------------------------------
FormMounted == form.pc = "mounted"

\* The entries of state.fields whose highlighted is true.
HighlightedFields ==
    {k \in DOMAIN form.state.fields : IsHighlighted(form.state.fields, k)}

\* C21: in every reachable form state at most one field has highlighted =
\* true, a highlighted field is the one that highlightedField names, and
\* when highlightedField is null no field is highlighted.
C21_SingleHighlight ==
    FormMounted =>
        /\ Cardinality(HighlightedFields) <= 1
        /\ \A k \in HighlightedFields : form.state.highlightedField = k
        /\ form.state.highlightedField = Null => HighlightedFields = {}

\* C22: a highlight lasts until the duration it was requested for has
\* elapsed, unless another field is highlighted in the meantime: a step
\* that takes the highlight from a field before that is a call that
\* highlights another.
C22_HighlightLastsItsDuration ==
    [][\A k \in DOMAIN form.state.fields :
          (/\ FormMounted
           /\ IsHighlighted(form.state.fields, k)
           /\ form.own > 0
           /\ ~IsHighlighted(form'.state.fields, k))
          => (/\ form'.calls = form.calls + 1
              /\ form'.state.highlightedField # k)]_vars

\* C23: once every scheduled timer has fired, highlightedField is null and
\* no field is highlighted.
C23_HighlightCleared ==
    (FormMounted /\ form.timers = <<>>) =>
        /\ form.state.highlightedField = Null
        /\ HighlightedFields = {}

\* C24: in every reachable form state the keys of state.fields are exactly
\* the ids of SCHENGEN_FIELDS.
C24_KeysAreSchemaIds ==
    FormMounted => DOMAIN form.state.fields = SchemaIds

\* The properties of an entry that an edit or a tool sets.
SameContent(before, after) ==
    \A prop \in {"value", "touched", "error"} :
        /\ prop \in DOMAIN before <=> prop \in DOMAIN after
        /\ prop \in DOMAIN before => before[prop] = after[prop]

\* The step is a call of the tool.
CallOf(tool) == form'.calls = form.calls + 1 /\ form'.last.tool = tool

NonBlankRequired ==
    {id \in RequiredIds : form.state.fields[id].value \notin {"", " "}}

\* C26: in every reachable form state getCompletionPercentage returns an
\* integer in 0..100 that is 100 * filled / required rounded to the nearest
\* integer (half up), where filled counts the required fields whose value
\* is not blank; it is 0 in the initial state and 100 exactly when every
\* required field is non-blank.
C26_CompletionPercentage ==
    FormMounted =>
        LET percentage == getCompletionPercentage(form.state.fields)
            required == Cardinality(RequiredIds)
            filled == Cardinality(NonBlankRequired)
        IN  /\ percentage \in 0..100
            /\ 2 * percentage * required - required <= 200 * filled
            /\ 200 * filled < 2 * percentage * required + required
            /\ form.state = initialState => percentage = 0
            /\ percentage = 100 <=> filled = required

\* Two of the three required fields are filled and the third holds a
\* blank: the percentage is 67.
C26_Witness ==
    /\ FormMounted
    /\ Cardinality(NonBlankRequired) = 2
    /\ \E id \in RequiredIds : form.state.fields[id].value = " "
    /\ getCompletionPercentage(form.state.fields) = 67

\* ------------------------------------------------------------------------
\* The assistant's session
\* ------------------------------------------------------------------------
\* C27: the session that sendMessage uses was created with the current
\* token: a createSession or resumeSession that was started for a previous
\* token and settles after the effect's cleanup does not become the active
\* session and does not touch the connected flag.
C27_SessionOfCurrentToken ==
    /\ []((Loaded /\ app.page.sessionRef # Null)
             => app.page.sessionRef = app.page.token)
    /\ [][\A t \in AppTokens \cup {FALLBACK_TOKEN} :
            (/\ Loaded
             /\ t \in app.page.pending
             /\ t # app.page.token
             /\ t \notin app'.page.pending
             /\ app'.loads = app.loads)
            => /\ app'.page.sessionRef = app.page.sessionRef
               /\ app'.page.isConnected = app.page.isConnected]_vars

\* ------------------------------------------------------------------------
\* The chat panel
\* ------------------------------------------------------------------------
ChatOpen == chat.pc = "open"

\* The calls of sendMessage that have been made and have not returned.
CallsInFlight == {c \in ChatCalls : InFlight(c)}

\* C28: isLoading is true for the whole time a call of sendMessage is in
\* flight, the conversion of its files included, and no two calls are in
\* flight at once.
C28_LoadingWhileInFlight ==
    ChatOpen =>
        /\ CallsInFlight # {} => chat.isLoading
        /\ Cardinality(CallsInFlight) <= 1

\* The calls that have set isLoading and have not returned.
TurnOpen(c) == chat.call[c].pc \in {"simulating", "sending", "streaming", "closing"}

\* The number of system messages that a call appended.
SystemMessages(messages, c) == messages[c].system

\* C29: every call of sendMessage that has set isLoading completes its
\* turn; the step that completes it leaves isLoading false and
\* currentActivity null, appends exactly one system message if the turn
\* met an error and none otherwise, and lets no exception escape.
C29_TurnCompletes ==
    /\ \A c \in ChatCalls : (ChatOpen /\ TurnOpen(c)) ~> (chat.call[c].pc = "done")
    /\ [][\A c \in ChatCalls :
            (ChatOpen /\ TurnOpen(c) /\ chat'.call[c].pc = "done")
            => /\ ~chat'.isLoading
               /\ chat'.currentActivity = Null
               /\ c \notin chat'.escaped
               /\ SystemMessages(chat'.messages, c)
                     = IF chat'.call[c].outcome = "ok" THEN 0 ELSE 1
               /\ SystemMessages(chat.messages, c) = 0]_vars

\* A turn that streamed an assistant message, set the activity indicator
\* and then met an error of the stream has completed.
C29_Witness ==
    /\ ChatOpen
    /\ \E c \in ChatCalls :
         /\ chat.call[c].pc = "done"
         /\ chat.call[c].streamed
         /\ chat.call[c].outcome = "stream_threw"
         /\ SystemMessages(chat.messages, c) = 1
         /\ ~chat.isLoading
         /\ chat.currentActivity = Null

\* ------------------------------------------------------------------------
\* The return from checkout
\* ------------------------------------------------------------------------
\* The page's URL carries the payment_id p, and p has settled.
ReturnedWith(p) ==
    /\ checkout.pc = "page"
    /\ checkout.paymentId = p
    /\ Settled(provider[p])

\* The page's token is the credential the worker issued for payment p.
Installed(p) ==
    /\ checkout.pc = "page"
    /\ Len(checkout.token) = 3
    /\ Payload(checkout.token).sub = p

\* C30: a page loaded with the payment_id of a settled payment in its URL
\* eventually holds the credential of that payment, installed through
\* setToken, whether or not the first verify attempt succeeds.
C30_CredentialObtained ==
    \A p \in PaymentIds : ReturnedWith(p) ~> Installed(p)
====
